---------------------------- MODULE Spec2Model ----------------------------
(***************************************************************************)
(* A model of LxOpiRepPy: the file-backed time stores of io.py             *)
(* (LastTimeStore, LastTimeMemoryStore) and the request engine of http.py  *)
(* (AnonimousEngine).                                                      *)
(*                                                                         *)
(* Values are tagged records so that values of different Python types can  *)
(* be compared.  Text is a sequence of one-character strings.              *)
(***************************************************************************)
EXTENDS Integers, Sequences, FiniteSets, TLC

VARIABLES
    cls,        \* the class of the store instance of this run
    inst,       \* TRUE when a constructed store instance exists
    file,       \* content of the file self.fname
    bkp,        \* content of the file self.fname_bkp
    last_time,  \* LastTimeStore.last_time
    memory,     \* LastTimeMemoryStore.memory
    call,       \* the last store call made: [op, arg, pre]
    prevcall,   \* the store call made before it
    outcome,    \* what the last store call returned or raised
    lastnow,    \* what the last dt.datetime.now() of a store call returned
    epc,        \* where the engine's control is
    caller,     \* what called the running get_new_ip(): "init" or "retry"
    method,     \* the request method of the last get/post call
    session,    \* AnonimousEngine.session: the number of the current session
    func_session, \* the session whose method _retry_loop was given as func
    cip,        \* AnonimousEngine.cip
    eip,        \* AnonimousEngine.eip
    calls,      \* calls of func made by the running or last _retry_loop
    fails,      \* those of them that raised
    rotations,  \* calls of get_new_ip() made by the running or last _retry_loop
    response,   \* what the last get/post returned or raised
    probe,      \* what the last probe of check_ip() met
    checked,    \* what the last check_ip() returned or raised
    authenticated, \* whether controller.authenticate() has succeeded
    target_limit, \* RateLimiter.target_limit, in seconds
    res,        \* RateLimiter.res
    epoch,      \* RateLimiter.epoch
    _akt,       \* RateLimiter._akt
    now,        \* the clock time.time() reads, in seconds
    lastcheck,  \* the last rate check made: its variant, the state it met
                \* and the seconds its caller was suspended
    wpc,        \* where each of two concurrent writers is in its set()
    wtext       \* the text each concurrent writer's set() writes

storeVars == <<cls, inst, file, bkp, last_time, memory, call, prevcall, outcome, lastnow>>

engineVars == <<epc, caller, method, session, func_session, cip, eip, calls,
                fails, rotations, response, probe, checked, authenticated>>

limiterVars == <<target_limit, res, epoch, _akt, now, lastcheck>>

writerVars == <<wpc, wtext>>

vars == <<storeVars, engineVars, limiterVars, writerVars>>

----------------------------------------------------------------------------
(* Bounds *)

\* seconds of a timestamp range over 0..MaxSec
MaxSec == 1
\* microseconds of a timestamp are 0 or MaxMicro
MaxMicro == 500
\* integer keys of a progress map are -MaxKey and MaxKey
MaxKey == 11
\* sessions (circuits) an engine may build in a run
MaxSessions == 3
\* target limits of a rate limiter range over 0..MaxTarget seconds
MaxTarget == 3
\* the clock of a rate limiter run stops at MaxNow seconds
MaxNow == 6

----------------------------------------------------------------------------
(* Python values *)

None == [py |-> "None"]
\* a dt.datetime; the date, hour and minute fields are fixed and left out
Time(s, u) == [py |-> "datetime", sec |-> s, us |-> u]
Times == {Time(s, u) : s \in 0..MaxSec, u \in {0, MaxMicro}}
\* a Dict[int, dt.datetime]
Dict(f) == [py |-> "dict", d |-> f]
Keys == {-MaxKey, MaxKey}
EmptyFcn == [k \in {} |-> None]
\* the times a progress map holds: one without and one with a fraction
MapTimes == {Time(0, 0), Time(MaxSec, MaxMicro)}
Maps == {Dict(f) : f \in UNION {[K -> MapTimes] : K \in SUBSET Keys}}

Ok(v) == [kind |-> "ok", val |-> v]
Raise(e) == [kind |-> "raise", exc |-> e]

----------------------------------------------------------------------------
(* Text conversions *)

DigitChars == <<"0", "1", "2", "3", "4", "5", "6", "7", "8", "9">>
DigitChar(d) == DigitChars[d + 1]
IsDigit(c) == \E d \in 0..9 : DigitChars[d + 1] = c
DigitVal(c) == CHOOSE d \in 0..9 : DigitChars[d + 1] = c

RECURSIVE NatToStr(_)
NatToStr(n) ==
    IF n < 10 THEN <<DigitChar(n)>>
    ELSE NatToStr(n \div 10) \o <<DigitChar(n % 10)>>

\* str(k) of an int k, as json.dumps writes a dict key
IntToStr(n) == IF n < 0 THEN <<"-">> \o NatToStr(-n) ELSE NatToStr(n)

AllDigits(s) == Len(s) > 0 /\ \A i \in 1..Len(s) : IsDigit(s[i])

RECURSIVE StrToNat(_)
StrToNat(s) ==
    IF Len(s) = 0 THEN 0
    ELSE 10 * StrToNat(SubSeq(s, 1, Len(s) - 1)) + DigitVal(s[Len(s)])

\* int(k) losing the sign of k
IntOfStr_unsigned(s) ==
    IF Len(s) > 1 /\ s[1] \in {"-", "+"} /\ AllDigits(Tail(s))
    THEN Ok(StrToNat(Tail(s)))
    ELSE IF AllDigits(s) THEN Ok(StrToNat(s))
    ELSE Raise("ValueError")

\* int(k) of a str k: Ok(n), or ValueError
IntOfStr(s) ==
    IF Len(s) > 1 /\ s[1] \in {"-", "+"} /\ AllDigits(Tail(s))
    THEN Ok(IF s[1] = "-" THEN -StrToNat(Tail(s)) ELSE StrToNat(Tail(s)))
    ELSE IF AllDigits(s) THEN Ok(StrToNat(s))
    ELSE Raise("ValueError")

RECURSIVE PadNat(_, _)
PadNat(n, w) ==
    IF w = 0 THEN <<>> ELSE PadNat(n \div 10, w - 1) \o <<DigitChar(n % 10)>>

\* dt.datetime.isoformat(): the fraction is written only when it is not zero
isoformat(t) ==
    PadNat(t.sec, 2) \o (IF t.us = 0 THEN <<>> ELSE <<".">> \o PadNat(t.us, 6))

\* dt.datetime.fromisoformat(s) of a str s: Ok(time), or ValueError
fromisoformat(s) ==
    IF Len(s) = 2 /\ AllDigits(s) /\ StrToNat(s) < 60
    THEN Ok(Time(StrToNat(s), 0))
    ELSE IF /\ Len(s) = 9
            /\ AllDigits(SubSeq(s, 1, 2))
            /\ StrToNat(SubSeq(s, 1, 2)) < 60
            /\ s[3] = "."
            /\ AllDigits(SubSeq(s, 4, 9))
    THEN Ok(Time(StrToNat(SubSeq(s, 1, 2)), StrToNat(SubSeq(s, 4, 9))))
    ELSE Raise("ValueError")


----------------------------------------------------------------------------
(* JSON documents and files *)

JStr(s) == [j |-> "string", s |-> s]
JNum(n) == [j |-> "number", n |-> n]
JArr == [j |-> "array"]
\* an object: a function from key text to JSON values
JObj(f) == [j |-> "object", items |-> f]

\* the file does not exist
Missing == [f |-> "missing"]
\* the file holds text that is not JSON
Garbage == [f |-> "garbage"]
\* the file holds the JSON document j
Doc(j) == [f |-> "json", doc |-> j]

\* json.dumps(dict((k, v.isoformat()) for k, v in progress.items())):
\* every int key is written as a string
dumps(m) ==
    JObj([ks \in {IntToStr(k) : k \in DOMAIN m.d} |->
            JStr(isoformat(m.d[CHOOSE k \in DOMAIN m.d : IntToStr(k) = ks]))])

\* the file holds the text t, which a writer may have left unfinished
Text(t) == [f |-> "text", text |-> t]

Quote == "\""

\* the orders in which a dict with the keys S may be iterated
Orders(S) ==
    {o \in [1..Cardinality(S) -> S] :
        \A i, k \in 1..Cardinality(S) : o[i] = o[k] => i = k}

\* the text json.dump writes for a document that is not an object
RenderScalar(j) ==
    IF j.j = "string" THEN <<Quote>> \o j.s \o <<Quote>>
    ELSE IF j.j = "number" THEN NatToStr(j.n)
    ELSE <<"[", "]">>

\* the text json.dump / json.dumps writes for the document j, the members
\* of an object in the order ord of their keys
Render(j, ord) ==
    IF j.j # "object" THEN RenderScalar(j)
    ELSE LET Members[i \in 0..Len(ord)] ==
                IF i = 0 THEN <<>>
                ELSE Members[i - 1] \o (IF i = 1 THEN <<>> ELSE <<",", " ">>)
                        \o <<Quote>> \o ord[i] \o <<Quote, ":", " ">>
                        \o RenderScalar(j.items[ord[i]])
         IN  <<"{">> \o Members[Len(ord)] \o <<"}">>

\* f with the member k: v added
WithMember(f, k, v) ==
    [x \in DOMAIN f \cup {k} |-> IF x = k THEN v ELSE f[x]]

\* the scanner of json.loads before the first character: q is where it is
\* in the grammar, str and key the string being read and the key read last,
\* items the members of the object read so far
Scan0 == [q |-> "start", str |-> <<>>, key |-> <<>>, items |-> EmptyFcn]

\* the scanner after the character c, on the texts that occur: strings
\* without escapes, unsigned integers, the empty array, and objects whose
\* members are strings or unsigned integers
Step(s, c) ==
    IF s.q = "start" THEN
        IF c = " " THEN s
        ELSE IF c = Quote THEN [s EXCEPT !.q = "str"]
        ELSE IF IsDigit(c) THEN [s EXCEPT !.q = "num", !.str = <<c>>]
        ELSE IF c = "[" THEN [s EXCEPT !.q = "arr"]
        ELSE IF c = "{" THEN [s EXCEPT !.q = "obj"]
        ELSE [s EXCEPT !.q = "bad"]
    ELSE IF s.q = "str" THEN
        IF c = Quote THEN [s EXCEPT !.q = "endstr"]
        ELSE [s EXCEPT !.str = s.str \o <<c>>]
    ELSE IF s.q = "num" THEN
        IF IsDigit(c) THEN [s EXCEPT !.str = s.str \o <<c>>]
        ELSE IF c = " " THEN [s EXCEPT !.q = "endnum"]
        ELSE [s EXCEPT !.q = "bad"]
    ELSE IF s.q = "arr" THEN
        IF c = " " THEN s
        ELSE IF c = "]" THEN [s EXCEPT !.q = "endarr"]
        ELSE [s EXCEPT !.q = "bad"]
    ELSE IF s.q \in {"obj", "member"} THEN
        IF c = " " THEN s
        ELSE IF c = "}" /\ s.q = "obj" THEN [s EXCEPT !.q = "endobj"]
        ELSE IF c = Quote THEN [s EXCEPT !.q = "key", !.key = <<>>]
        ELSE [s EXCEPT !.q = "bad"]
    ELSE IF s.q = "key" THEN
        IF c = Quote THEN [s EXCEPT !.q = "colon"]
        ELSE [s EXCEPT !.key = s.key \o <<c>>]
    ELSE IF s.q = "colon" THEN
        IF c = " " THEN s
        ELSE IF c = ":" THEN [s EXCEPT !.q = "value"]
        ELSE [s EXCEPT !.q = "bad"]
    ELSE IF s.q = "value" THEN
        IF c = " " THEN s
        ELSE IF c = Quote THEN [s EXCEPT !.q = "vstr", !.str = <<>>]
        ELSE IF IsDigit(c) THEN [s EXCEPT !.q = "vnum", !.str = <<c>>]
        ELSE [s EXCEPT !.q = "bad"]
    ELSE IF s.q = "vstr" THEN
        IF c = Quote
        THEN [s EXCEPT !.q = "next",
                       !.items = WithMember(s.items, s.key, JStr(s.str))]
        ELSE [s EXCEPT !.str = s.str \o <<c>>]
    ELSE IF s.q = "vnum" THEN
        IF IsDigit(c) THEN [s EXCEPT !.str = s.str \o <<c>>]
        ELSE IF c \in {" ", ",", "}"}
        THEN [s EXCEPT !.q = IF c = " " THEN "next"
                             ELSE IF c = "," THEN "member" ELSE "endobj",
                       !.items = WithMember(s.items, s.key,
                                            JNum(StrToNat(s.str)))]
        ELSE [s EXCEPT !.q = "bad"]
    ELSE IF s.q = "next" THEN
        IF c = " " THEN s
        ELSE IF c = "," THEN [s EXCEPT !.q = "member"]
        ELSE IF c = "}" THEN [s EXCEPT !.q = "endobj"]
        ELSE [s EXCEPT !.q = "bad"]
    ELSE IF s.q \in {"endstr", "endnum", "endarr", "endobj"} /\ c = " " THEN s
    ELSE [s EXCEPT !.q = "bad"]

\* the scanner after the whole text t
Scan(t) ==
    LET Run[i \in 0..Len(t)] ==
            IF i = 0 THEN Scan0 ELSE Step(Run[i - 1], t[i])
    IN  Run[Len(t)]

\* the document the scanner has read when it ends in s, or JSONDecodeError
Scanned(s) ==
    IF s.q = "endstr" THEN Ok(JStr(s.str))
    ELSE IF s.q \in {"num", "endnum"} THEN Ok(JNum(StrToNat(s.str)))
    ELSE IF s.q = "endarr" THEN Ok(JArr)
    ELSE IF s.q = "endobj" THEN Ok(JObj(s.items))
    ELSE Raise("JSONDecodeError")

\* json.loads(t): the document of the text t, or JSONDecodeError
loads(t) == Scanned(Scan(t))

\* open(path, 'r') followed by json.load / json.loads
json_load(c) ==
    IF c = Missing THEN Raise("FileNotFoundError")
    ELSE IF c = Garbage THEN Raise("JSONDecodeError")
    ELSE IF c.f = "text" THEN loads(c.text)
    ELSE Ok(c.doc)

\* the exceptions both get() methods catch
Caught(r) == r.kind = "raise" /\ r.exc \in {"JSONDecodeError", "FileNotFoundError"}

----------------------------------------------------------------------------
(* LastTimeStore *)

\* _get(fdir): the time read from a file, or the exception raised
LastTimeStore__get(c) ==
    LET r == json_load(c) IN
    IF r.kind = "raise" THEN r
    ELSE IF r.val.j # "string" THEN Raise("TypeError")
    ELSE fromisoformat(r.val.s)

\* get(): [held |-> the new last_time, out |-> returned or raised,
\*         now |-> what dt.datetime.now() gave, None when it was not called]
\* nowv is the time dt.datetime.now() gives when called
LastTimeStore_get_body(prim, back, held, nowv) ==
    LET r1 == LastTimeStore__get(prim)
        r2 == LastTimeStore__get(back)
    IN  IF r1.kind = "ok" THEN [held |-> r1.val, out |-> r1, now |-> None]
        ELSE IF ~Caught(r1) THEN [held |-> held, out |-> r1, now |-> None]
        ELSE IF r2.kind = "ok" THEN [held |-> r2.val, out |-> r2, now |-> None]
        ELSE IF ~Caught(r2) THEN [held |-> held, out |-> r2, now |-> None]
        ELSE [held |-> nowv, out |-> Ok(nowv), now |-> nowv]

\* set(time) that never takes the current time
LastTimeStore_set_keeps(held, time, nowv) ==
    [held |-> held, text |-> Doc(JStr(isoformat(held))), now |-> None]

\* set(time): [held |-> the new last_time, text |-> what both files get,
\*            now |-> what dt.datetime.now() gave, None when it was not called]
LastTimeStore_set_body(held, time, nowv) ==
    LET h == IF time = None THEN nowv ELSE held
    IN  [held |-> h, text |-> Doc(JStr(isoformat(h))),
         now |-> IF time = None THEN nowv ELSE None]

NowRead(n, old) == IF n = None THEN old ELSE n

Called(op, arg, pre) == [op |-> op, arg |-> arg, pre |-> pre]

\* LastTimeStore(fname): a fresh instance; the constructor runs get()
LastTimeStore_init ==
    /\ cls = "LastTimeStore"
    /\ \E nowv \in Times :
        LET g == LastTimeStore_get_body(file, bkp, None, nowv) IN
        /\ inst' = (g.out.kind = "ok")
        /\ last_time' = g.held
        /\ outcome' = g.out
        /\ lastnow' = NowRead(g.now, lastnow)
    /\ call' = Called("new", None, None)
    /\ prevcall' = call
    /\ UNCHANGED <<cls, file, bkp, memory, engineVars, limiterVars, writerVars>>

LastTimeStore_get ==
    /\ cls = "LastTimeStore"
    /\ inst
    /\ \E nowv \in Times :
        LET g == LastTimeStore_get_body(file, bkp, last_time, nowv) IN
        /\ last_time' = g.held
        /\ outcome' = g.out
        /\ lastnow' = NowRead(g.now, lastnow)
    /\ call' = Called("get", None, last_time)
    /\ prevcall' = call
    /\ UNCHANGED <<cls, inst, file, bkp, memory, engineVars, limiterVars, writerVars>>

LastTimeStore_set ==
    /\ cls = "LastTimeStore"
    /\ inst
    /\ \E time \in Times \cup {None}, nowv \in Times :
        LET s == LastTimeStore_set_body(last_time, time, nowv) IN
        /\ last_time' = s.held
        /\ file' = s.text
        /\ bkp' = s.text
        /\ call' = Called("set", time, last_time)
        /\ lastnow' = NowRead(s.now, lastnow)
    /\ outcome' = Ok(None)
    /\ prevcall' = call
    /\ UNCHANGED <<cls, inst, memory, engineVars, limiterVars, writerVars>>

----------------------------------------------------------------------------
(* LastTimeMemoryStore *)

\* _get(fpath): the JSON document of a file, or the exception raised
LastTimeMemoryStore__get(c) == json_load(c)

\* dict((int(k), dt.datetime.fromisoformat(v)) for k, v in d.items())
Convert(d) ==
    IF d.j # "object" THEN Raise("AttributeError")
    ELSE LET f == d.items
             ks == DOMAIN f
         IN  IF \E k \in ks : IntOfStr(k).kind = "raise" THEN Raise("ValueError")
             ELSE IF \E k \in ks : f[k].j # "string" THEN Raise("TypeError")
             ELSE IF \E k \in ks : fromisoformat(f[k].s).kind = "raise"
                  THEN Raise("ValueError")
             ELSE Ok(Dict([n \in {IntOfStr(k).val : k \in ks} |->
                     fromisoformat(f[CHOOSE k \in ks : IntOfStr(k).val = n].s).val]))

\* get(): [held |-> the new memory, out |-> returned or raised]
LastTimeMemoryStore_get_body(prim, back, held) ==
    LET r1 == LastTimeMemoryStore__get(prim)
        r2 == LastTimeMemoryStore__get(back)
        d  == IF r1.kind = "ok" THEN r1 ELSE r2
        c  == Convert(d.val)
    IN  IF d.kind = "raise" THEN [held |-> held, out |-> Ok(Dict(EmptyFcn))]
        ELSE IF c.kind = "raise" THEN [held |-> held, out |-> c]
        ELSE [held |-> c.val, out |-> c]

\* set(progress): [out |-> returned or raised, text |-> what both files get]
LastTimeMemoryStore_set_body(held, progress) ==
    LET p == IF progress = None THEN held ELSE progress
    IN  IF p = None THEN [out |-> Raise("AttributeError"), text |-> Missing]
        ELSE [out |-> Ok(None), text |-> Doc(dumps(p))]

LastTimeMemoryStore_init ==
    /\ cls = "LastTimeMemoryStore"
    /\ LET g == LastTimeMemoryStore_get_body(file, bkp, None) IN
        /\ inst' = (g.out.kind = "ok")
        /\ memory' = g.held
        /\ outcome' = g.out
    /\ call' = Called("new", None, None)
    /\ prevcall' = call
    /\ UNCHANGED <<cls, file, bkp, last_time, lastnow, engineVars, limiterVars, writerVars>>

LastTimeMemoryStore_get ==
    /\ cls = "LastTimeMemoryStore"
    /\ inst
    /\ LET g == LastTimeMemoryStore_get_body(file, bkp, memory) IN
        /\ memory' = g.held
        /\ outcome' = g.out
    /\ call' = Called("get", None, memory)
    /\ prevcall' = call
    /\ UNCHANGED <<cls, inst, file, bkp, last_time, lastnow, engineVars, limiterVars, writerVars>>

LastTimeMemoryStore_set ==
    /\ cls = "LastTimeMemoryStore"
    /\ inst
    /\ \E progress \in Maps \cup {None} :
        LET s == LastTimeMemoryStore_set_body(memory, progress) IN
        /\ file' = (IF s.out.kind = "ok" THEN s.text ELSE file)
        /\ bkp' = (IF s.out.kind = "ok" THEN s.text ELSE bkp)
        /\ outcome' = s.out
        /\ call' = Called("set", progress, memory)
    /\ prevcall' = call
    /\ UNCHANGED <<cls, inst, last_time, memory, lastnow, engineVars, limiterVars, writerVars>>

----------------------------------------------------------------------------
(* The store specification *)

\* what a last_time.json may hold when an instance is built over it
TimeFiles ==
    {Missing, Garbage, Doc(JNum(5)), Doc(JStr(<<"x">>))}
        \cup {Doc(JStr(isoformat(t))) : t \in Times}

\* what a last_memory.json may hold when an instance is built over it
MemoryFiles ==
    {Missing, Garbage, Doc(JArr),
     Doc(JObj([k \in {<<"a">>} |-> JStr(isoformat(Time(0, 0)))])),
     Doc(JObj([k \in {<<"1">>} |-> JStr(<<"x">>)])),
     Doc(JObj([k \in {<<"1">>} |-> JNum(5)]))}
        \cup {Doc(dumps(m)) : m \in Maps}

\* check_ip() has not been called yet
NotCalled == [kind |-> "none"]

\* no engine is built in a run of the stores
EngineUnused ==
    /\ epc = "start" /\ caller = "none" /\ method = "none"
    /\ session = 0 /\ func_session = 0
    /\ cip = None /\ eip = None
    /\ calls = 0 /\ fails = 0 /\ rotations = 0
    /\ response = Ok(None) /\ probe = None /\ checked = NotCalled
    /\ authenticated = FALSE

\* no rate check has been made yet
NoCheck == [variant |-> "none"]

\* no rate limiter is built in a run of the stores or of the engine
LimiterUnused ==
    /\ target_limit = 0 /\ res = 0 /\ epoch = 0 /\ _akt = FALSE
    /\ now = 0 /\ lastcheck = NoCheck

\* the two processes that may write the files of one store
Writers == {1, 2}

\* no second writer runs
WritersUnused ==
    /\ wpc = [p \in Writers |-> "none"]
    /\ wtext = [p \in Writers |-> Missing]

InitStore ==
    /\ EngineUnused
    /\ LimiterUnused
    /\ WritersUnused
    /\ cls \in {"LastTimeStore", "LastTimeMemoryStore"}
    /\ inst = FALSE
    /\ file \in (IF cls = "LastTimeStore" THEN TimeFiles ELSE MemoryFiles)
    /\ bkp \in (IF cls = "LastTimeStore" THEN TimeFiles ELSE MemoryFiles)
    /\ last_time = None
    /\ memory = None
    /\ call = Called("none", None, None)
    /\ prevcall = Called("none", None, None)
    /\ outcome = Ok(None)
    /\ lastnow = None

NextStore ==
    \/ LastTimeStore_init
    \/ LastTimeStore_get
    \/ LastTimeStore_set
    \/ LastTimeMemoryStore_init
    \/ LastTimeMemoryStore_get
    \/ LastTimeMemoryStore_set

SpecStore == InitStore /\ [][NextStore]_vars

----------------------------------------------------------------------------
(* A writer that crashes inside set() *)

\* the text a file holds, empty when it has none
OldText(c) ==
    IF c.f = "text" THEN c.text
    ELSE IF c.f = "json"
    THEN Render(c.doc, IF c.doc.j = "object"
                       THEN CHOOSE o \in Orders(DOMAIN c.doc.items) : TRUE
                       ELSE <<>>)
    ELSE <<>>

\* a write of the first n characters of text over the file without
\* truncating it
open_rplus_write(old, text, n) ==
    Text(SubSeq(text, 1, n) \o SubSeq(OldText(old), n + 1, Len(OldText(old))))

\* open(path, 'w') truncates the file; the write ends after the first n
\* characters of text
open_w_write(old, text, n) == Text(SubSeq(text, 1, n))

\* the points of set() at which the process may end: before the first
\* open, inside the write of the primary, inside the write of the backup
Stages == {"before", "primary", "backup"}

\* the two files when set(), writing text, ends at stage after n characters
CrashedFiles(text, stage, n) ==
    [file |-> IF stage = "before" THEN file
              ELSE IF stage = "primary" THEN open_w_write(file, text, n)
              ELSE open_w_write(file, text, Len(text)),
     bkp |-> IF stage = "backup" THEN open_w_write(bkp, text, n) ELSE bkp]

\* the set() that crashes is the first call made on the instance of the
\* first process of the run: what it writes is its argument, the value it
\* loaded, or the current time
CrashGuard == call.op = "new" /\ prevcall.op = "none"

\* both files hold the text of the same value, as a completed set() leaves
\* them: the state of the files in which a crash of the writer is followed
SameValid ==
    /\ CrashGuard
    /\ json_load(file).kind = "ok"
    /\ json_load(bkp) = json_load(file)
    /\ IF cls = "LastTimeStore" THEN LastTimeStore__get(file).kind = "ok"
       ELSE Convert(json_load(file).val).kind = "ok"

\* the value both files held when the crashed set() started
Before ==
    IF cls = "LastTimeStore" THEN LastTimeStore__get(file).val
    ELSE Convert(json_load(file).val).val

LastTimeStore_set_crash ==
    /\ cls = "LastTimeStore"
    /\ inst
    /\ SameValid
    /\ \E time \in Times \cup {None}, nowv \in Times, stage \in Stages :
        LET s == LastTimeStore_set_body(last_time, time, nowv)
            text == Render(s.text.doc, <<>>)
        IN  \E n \in 0..Len(text) :
            /\ stage = "before" => n = 0
            /\ file' = CrashedFiles(text, stage, n).file
            /\ bkp' = CrashedFiles(text, stage, n).bkp
            /\ call' = Called("crash", IF time = None THEN s.held ELSE time,
                              Before)
            /\ lastnow' = NowRead(s.now, lastnow)
    /\ inst' = FALSE
    /\ last_time' = None
    /\ outcome' = Ok(None)
    /\ prevcall' = call
    /\ UNCHANGED <<cls, memory, engineVars, limiterVars, writerVars>>

LastTimeMemoryStore_set_crash ==
    /\ cls = "LastTimeMemoryStore"
    /\ inst
    /\ SameValid
    /\ \E progress \in Maps \cup {None}, stage \in Stages :
        LET s == LastTimeMemoryStore_set_body(memory, progress) IN
        /\ s.out.kind = "ok"
        /\ \E ord \in Orders(DOMAIN s.text.doc.items) :
            LET text == Render(s.text.doc, ord) IN
            \E n \in 0..Len(text) :
                /\ stage = "before" => n = 0
                /\ file' = CrashedFiles(text, stage, n).file
                /\ bkp' = CrashedFiles(text, stage, n).bkp
        /\ call' = Called("crash", IF progress = None THEN memory ELSE progress,
                          Before)
    /\ inst' = FALSE
    /\ memory' = None
    /\ outcome' = Ok(None)
    /\ prevcall' = call
    /\ UNCHANGED <<cls, last_time, lastnow, engineVars, limiterVars, writerVars>>

\* both files hold the same value, as a completed set() leaves them
InitCrash ==
    /\ InitStore
    /\ file = bkp
    /\ file \in (IF cls = "LastTimeStore"
                 THEN {Doc(JStr(isoformat(t))) : t \in Times}
                 ELSE {Doc(dumps(m)) : m \in Maps})

NextCrash ==
    \/ NextStore
    \/ LastTimeStore_set_crash
    \/ LastTimeMemoryStore_set_crash

SpecCrash == InitCrash /\ [][NextCrash]_vars

----------------------------------------------------------------------------
(* Two processes that call set() on the same file names *)

\* process p builds its instance over the files and enters set(): the text
\* both of its writes will carry is fixed before its first open()
writer_start(p) ==
    /\ wpc[p] = "none"
    /\ IF cls = "LastTimeStore"
       THEN \E time \in Times \cup {None}, nowv \in Times :
            LET g == LastTimeStore_get_body(file, bkp, None, nowv)
                s == LastTimeStore_set_body(g.held, time, nowv)
            IN  /\ g.out.kind = "ok"
                /\ wtext' = [wtext EXCEPT ![p] = s.text]
       ELSE \E progress \in Maps \cup {None} :
            LET g == LastTimeMemoryStore_get_body(file, bkp, None)
                s == LastTimeMemoryStore_set_body(g.held, progress)
            IN  /\ g.out.kind = "ok"
                /\ s.out.kind = "ok"
                /\ wtext' = [wtext EXCEPT ![p] = s.text]
    /\ wpc' = [wpc EXCEPT ![p] = "primary"]
    /\ UNCHANGED <<storeVars, engineVars, limiterVars>>

\* the nothing a set() without its backup write does to the backup
writer_backup_skipped(p) ==
    /\ wpc[p] = "backup"
    /\ wpc' = [wpc EXCEPT ![p] = "done"]
    /\ UNCHANGED <<wtext, storeVars, engineVars, limiterVars>>

\* with open(self.fname, 'w') ...: process p writes the primary file
writer_primary(p) ==
    /\ wpc[p] = "primary"
    /\ file' = wtext[p]
    /\ wpc' = [wpc EXCEPT ![p] = "backup"]
    /\ UNCHANGED <<cls, inst, bkp, last_time, memory, call, prevcall, outcome,
                   lastnow, wtext, engineVars, limiterVars>>

\* with open(self.fname_bkp, 'w') ...: process p writes the backup file
writer_backup(p) ==
    /\ wpc[p] = "backup"
    /\ bkp' = wtext[p]
    /\ wpc' = [wpc EXCEPT ![p] = "done"]
    /\ UNCHANGED <<cls, inst, file, last_time, memory, call, prevcall, outcome,
                   lastnow, wtext, engineVars, limiterVars>>

\* no instance of this model's single process; both files hold the same
\* value
InitWriters ==
    /\ EngineUnused
    /\ LimiterUnused
    /\ WritersUnused
    /\ cls \in {"LastTimeStore", "LastTimeMemoryStore"}
    /\ inst = FALSE
    /\ file \in (IF cls = "LastTimeStore"
                 THEN {Doc(JStr(isoformat(t))) : t \in Times}
                 ELSE {Doc(dumps(m)) : m \in Maps})
    /\ bkp = file
    /\ last_time = None
    /\ memory = None
    /\ call = Called("none", None, None)
    /\ prevcall = Called("none", None, None)
    /\ outcome = Ok(None)
    /\ lastnow = None

NextWriters ==
    \E p \in Writers :
        \/ writer_start(p)
        \/ writer_primary(p)
        \/ writer_backup(p)

SpecWriters == InitWriters /\ [][NextWriters]_vars

----------------------------------------------------------------------------
(* AnonimousEngine *)

Str(t) == [py |-> "str", text |-> t]
Exception(m) == [py |-> "Exception", msg |-> m]

\* whether the text sub occurs in the text s
Contains(s, sub) ==
    \E i \in 1..(Len(s) - Len(sub) + 1) : SubSeq(s, i, i + Len(sub) - 1) = sub

DOCTYPE == <<"D", "O", "C", "T", "Y", "P", "E">>
IpKey == <<"i", "p">>
\* {"ip": a}
IpBody(a) == Doc(JObj([k \in {IpKey} |-> JStr(a)]))

\* addresses api.ipify.org may report
Addresses == {<<"1", ".", "2">>, <<"3", ".", "4">>}
\* an address field carrying an interception page
PageText == <<"<", "!">> \o DOCTYPE \o <<">">>

\* the probe's request raised RequestException or Timeout
NetError == [net |-> "error"]
\* the probe's request returned a response with this body
Body(b) == [net |-> "ok", body |-> b]

\* what session.get("https://api.ipify.org/?format=json") may meet
Probes ==
    {NetError, Body(Garbage), Body(Doc(JArr)),
     Body(Doc(JObj([k \in {} |-> JArr]))), Body(IpBody(PageText))}
        \cup {Body(IpBody(a)) : a \in Addresses}

\* the probes the claims call bad
BadProbes == Probes \ {Body(IpBody(a)) : a \in Addresses}

\* check_ip() that marks the address unknown before it reads the body
check_ip_marks_first(p, oldcip, oldeip) ==
    IF p = NetError \/ p.body = Garbage
    THEN [cip |-> Exception("IP_NOT_KNOWN"),
          eip |-> Exception("RequestException"), out |-> Ok(TRUE)]
    ELSE IF p.body.doc.j # "object"
    THEN [cip |-> Exception("IP_NOT_KNOWN"), eip |-> oldeip,
          out |-> Raise("TypeError")]
    ELSE IF IpKey \notin DOMAIN p.body.doc.items
    THEN [cip |-> Exception("IP_NOT_KNOWN"), eip |-> oldeip,
          out |-> Raise("KeyError")]
    ELSE [cip |-> Str(p.body.doc.items[IpKey].s), eip |-> None,
          out |-> Ok(FALSE)]

\* check_ip() on a probe p: [cip, eip |-> the fields after it,
\*                           out |-> Ok(bad) or the exception raised]
\* response.json() of a body that is not JSON raises
\* requests.exceptions.JSONDecodeError, a RequestException, so it is caught
check_ip(p, oldcip, oldeip) ==
    IF p = NetError \/ p.body = Garbage
    THEN [cip |-> Exception("IP_NOT_KNOWN"),
          eip |-> Exception("RequestException"), out |-> Ok(TRUE)]
    ELSE IF p.body.doc.j # "object"
    THEN [cip |-> oldcip, eip |-> oldeip, out |-> Raise("TypeError")]
    ELSE IF IpKey \notin DOMAIN p.body.doc.items
    THEN [cip |-> oldcip, eip |-> oldeip, out |-> Raise("KeyError")]
    ELSE [cip |-> Str(p.body.doc.items[IpKey].s), eip |-> None,
          out |-> Ok(FALSE)]

\* a constructor that goes on to get_new_ip() when authenticate() failed
AnonimousEngine_init_unchecked ==
    /\ epc = "start"
    /\ \E accepted \in BOOLEAN :
        /\ authenticated' = accepted
        /\ epc' = "signal"
        /\ caller' = "init"
        /\ cip' = Str(<<>>)
        /\ response' = IF accepted THEN response
                       ELSE Raise("AuthenticationFailure")
    /\ UNCHANGED <<method, session, func_session, eip, calls, fails,
                   rotations, probe, checked, storeVars, limiterVars,
                   writerVars>>

\* AnonimousEngine(password): authenticate, then get_new_ip()
AnonimousEngine_init ==
    /\ epc = "start"
    /\ \E accepted \in BOOLEAN :
        IF accepted
        THEN /\ authenticated' = TRUE
             /\ epc' = "signal"
             /\ caller' = "init"
             /\ cip' = Str(<<>>)
             /\ response' = response
        ELSE /\ authenticated' = FALSE
             /\ epc' = "dead"
             /\ caller' = caller
             /\ cip' = cip
             /\ response' = Raise("AuthenticationFailure")
    /\ UNCHANGED <<method, session, func_session, eip, calls, fails,
                   rotations, probe, checked, storeVars, limiterVars,
                   writerVars>>

\* get_new_ip(), the head of one loop cycle: signal NEWNYM, a fresh session
get_new_ip_cycle ==
    /\ epc = "signal"
    /\ session < MaxSessions
    /\ session' = session + 1
    /\ epc' = "probe"
    /\ UNCHANGED <<caller, method, func_session, cip, eip, calls, fails,
                   rotations, response, probe, checked, authenticated,
                   storeVars, limiterVars,
                   writerVars>>

\* get_new_ip(), the end of one loop cycle: bad = self.check_ip(); the loop
\* repeats while bad, get_new_ip() returns to its caller otherwise, and an
\* exception of check_ip() goes up through the caller
get_new_ip_check ==
    /\ epc = "probe"
    /\ \E p \in Probes :
        LET c == check_ip(p, cip, eip) IN
        /\ (c.out = Ok(TRUE)) => session < MaxSessions
        /\ probe' = p
        /\ cip' = c.cip
        /\ eip' = c.eip
        /\ checked' = c.out
        /\ epc' = IF c.out = Ok(TRUE) THEN "signal"
                   ELSE IF c.out = Ok(FALSE)
                        THEN (IF caller = "init" THEN "idle" ELSE "request")
                   ELSE (IF caller = "init" THEN "dead" ELSE "idle")
        /\ response' = IF c.out.kind = "raise" THEN c.out ELSE response
    /\ UNCHANGED <<caller, method, session, func_session, calls, fails,
                   rotations, authenticated, storeVars, limiterVars,
                   writerVars>>

\* get(url) / post(url): bind self.session.get / self.session.post and enter
\* _retry_loop
AnonimousEngine_get ==
    /\ epc = "idle"
    /\ \E m \in {"get", "post"} : method' = m
    /\ func_session' = session
    /\ calls' = 0
    /\ fails' = 0
    /\ rotations' = 0
    /\ epc' = "request"
    /\ UNCHANGED <<caller, session, cip, eip, response, probe, checked,
                   authenticated, storeVars, limiterVars,
                   writerVars>>

\* the response call number n of func returns
Response(n) == [py |-> "Response", attempt |-> n]

\* a pass that retries a call that raised without calling get_new_ip()
retry_body_no_rotation(raised) ==
    IF raised
    THEN [epc |-> "request", caller |-> caller, fails |-> fails + 1,
          rotations |-> rotations, response |-> response]
    ELSE [epc |-> "idle", caller |-> caller, fails |-> fails,
          rotations |-> rotations, response |-> Ok(Response(calls + 1))]

\* _retry_loop, one pass of its loop: func returns a response, which ends
\* the loop, or raises, which calls get_new_ip()
\* raised: whether this call of func raises RequestException or Timeout
retry_body(raised) ==
    IF raised
    THEN [epc |-> "signal", caller |-> "retry", fails |-> fails + 1,
          rotations |-> rotations + 1, response |-> response]
    ELSE [epc |-> "idle", caller |-> caller, fails |-> fails,
          rotations |-> rotations, response |-> Ok(Response(calls + 1))]

_retry_loop ==
    /\ epc = "request"
    /\ \E raised \in BOOLEAN :
        LET r == retry_body(raised) IN
        /\ raised => session < MaxSessions
        /\ calls' = calls + 1
        /\ epc' = r.epc
        /\ caller' = r.caller
        /\ fails' = r.fails
        /\ rotations' = r.rotations
        /\ response' = r.response
    /\ UNCHANGED <<method, session, func_session, cip, eip, probe, checked,
                   authenticated, storeVars, limiterVars,
                   writerVars>>

\* no store is built in a run of the engine
StoreUnused ==
    /\ cls = "LastTimeStore" /\ inst = FALSE
    /\ file = Missing /\ bkp = Missing
    /\ last_time = None /\ memory = None
    /\ call = Called("none", None, None)
    /\ prevcall = Called("none", None, None)
    /\ outcome = Ok(None) /\ lastnow = None

InitEngine == StoreUnused /\ EngineUnused /\ LimiterUnused /\ WritersUnused

NextEngine ==
    \/ AnonimousEngine_init
    \/ get_new_ip_cycle
    \/ get_new_ip_check
    \/ AnonimousEngine_get
    \/ _retry_loop

SpecEngine == InitEngine /\ [][NextEngine]_vars

----------------------------------------------------------------------------
(* RateLimiter *)

\* the seconds time.sleep(b) sleeps when given a bool: True is 1, False is 0
BoolSeconds(b) == IF b THEN 1 ELSE 0

\* rate_check() met with res r, epoch e, target_limit t, _akt a at time n:
\* [slept |-> seconds the caller was suspended, res, akt |-> the fields after]
rate_check_body(r, e, t, a, n) ==
    LET wait == (r + t - e) > 0 IN
    IF wait /\ a
    THEN [slept |-> BoolSeconds(wait), res |-> n + BoolSeconds(wait),
          akt |-> FALSE]
    ELSE [slept |-> 0, res |-> r, akt |-> a]

\* async_rate_check(): asyncio.sleep(wait) is not awaited, so the coroutine
\* it makes never runs and the caller is not suspended
async_rate_check_body(r, e, t, a, n) ==
    LET wait == (r + t - e) > 0 IN
    IF wait /\ a
    THEN [slept |-> 0, res |-> n, akt |-> FALSE]
    ELSE [slept |-> 0, res |-> r, akt |-> a]

Checked(variant, out) ==
    [variant |-> variant, res |-> res, akt |-> _akt, now |-> now, out |-> out]

\* akt()
akt ==
    /\ _akt' = TRUE
    /\ UNCHANGED <<target_limit, res, epoch, now, lastcheck, storeVars,
                   engineVars, writerVars>>

\* rate_check()
rate_check ==
    LET c == rate_check_body(res, epoch, target_limit, _akt, now) IN
    /\ now + c.slept <= MaxNow
    /\ now' = now + c.slept
    /\ res' = c.res
    /\ _akt' = c.akt
    /\ lastcheck' = Checked("sync", c)
    /\ UNCHANGED <<target_limit, epoch, storeVars, engineVars, writerVars>>

\* async_rate_check()
async_rate_check ==
    LET c == async_rate_check_body(res, epoch, target_limit, _akt, now) IN
    /\ now' = now + c.slept
    /\ res' = c.res
    /\ _akt' = c.akt
    /\ lastcheck' = Checked("async", c)
    /\ UNCHANGED <<target_limit, epoch, storeVars, engineVars, writerVars>>

\* a second passes between two calls
Tick ==
    /\ now < MaxNow
    /\ now' = now + 1
    /\ UNCHANGED <<target_limit, res, epoch, _akt, lastcheck, storeVars,
                   engineVars, writerVars>>

\* RateLimiter(target_limit), built at second 0
InitLimiter ==
    /\ StoreUnused /\ EngineUnused /\ WritersUnused
    /\ target_limit \in 0..MaxTarget
    /\ now = 0
    /\ res = now /\ epoch = now
    /\ _akt = FALSE
    /\ lastcheck = NoCheck

NextLimiter ==
    \/ akt
    \/ rate_check
    \/ async_rate_check
    \/ Tick

SpecLimiter == InitLimiter /\ [][NextLimiter]_vars

----------------------------------------------------------------------------
(* Claims about the stores *)

\* the value the instance holds
Held == IF cls = "LastTimeStore" THEN last_time ELSE memory
\* the file text that holds the value v
Serialized(v) ==
    IF cls = "LastTimeStore" THEN Doc(JStr(isoformat(v))) ELSE Doc(dumps(v))
\* the value a file yields when it is readable, a raise otherwise
FileValue(c) ==
    IF cls = "LastTimeStore" THEN LastTimeStore__get(c)
    ELSE IF json_load(c).kind = "raise" THEN json_load(c)
    ELSE Convert(json_load(c).val)
Loaded == call.op \in {"new", "get"}
ExplicitSet == call.op = "set" /\ call.arg # None
BareSet == call.op = "set" /\ call.arg = None

\* C1: load() never raises; it yields the primary's value when the primary
\* is readable, otherwise the backup's value when the backup is readable,
\* otherwise the default (a current time / the empty map).
C1_LoadFallsBack ==
    Loaded =>
        /\ outcome.kind = "ok"
        /\ IF FileValue(file).kind = "ok" THEN outcome = FileValue(file)
           ELSE IF FileValue(bkp).kind = "ok" THEN outcome = FileValue(bkp)
           ELSE IF cls = "LastTimeStore" THEN outcome.val \in Times
           ELSE outcome.val = Dict(EmptyFcn)

\* C2: LastTimeStore.set(t) followed by the load of a fresh LastTimeStore
\* returns t.
C2_TimeRoundTrip ==
    (cls = "LastTimeStore" /\ call.op = "new"
        /\ prevcall.op = "set" /\ prevcall.arg # None)
    => outcome = Ok(prevcall.arg)

\* C3: LastTimeMemoryStore.set(m) followed by the load of a fresh
\* LastTimeMemoryStore returns a map equal to m whose keys are integers.
C3_MemoryRoundTrip ==
    (cls = "LastTimeMemoryStore" /\ call.op = "new"
        /\ prevcall.op = "set" /\ prevcall.arg # None)
    => /\ outcome = Ok(prevcall.arg)
       /\ DOMAIN outcome.val.d \subseteq Int

\* a fresh keyed store has loaded a two-key map, with a negative key and a
\* fractional time, that was stored just before
C3_Witness ==
    /\ cls = "LastTimeMemoryStore" /\ call.op = "new"
    /\ prevcall.op = "set" /\ prevcall.arg # None
    /\ DOMAIN prevcall.arg.d = Keys
    /\ prevcall.arg.d[-MaxKey] = Time(MaxSec, MaxMicro)
    /\ outcome.kind = "ok"
    /\ memory = prevcall.arg

\* C4: after a store() that completes, the primary and the backup file are
\* identical and hold the serialization of the value given to that store()
\* call or, when none was given, of the value the instance holds.
C4_DualFile ==
    (call.op = "set" /\ outcome.kind = "ok") =>
        /\ file = bkp
        /\ file = Serialized(IF call.arg # None THEN call.arg ELSE Held)

\* C5: after store(v) with an explicit v the instance holds v.
C5_SetAdopts == (ExplicitSet /\ outcome.kind = "ok") => Held = call.arg

\* C6 as claimed: store() with no argument writes the value held before the
\* call to both files and leaves the held value unchanged, on both stores.
C6_BareSetPersistsHeld ==
    (BareSet /\ outcome.kind = "ok") =>
        /\ file = Serialized(call.pre)
        /\ bkp = Serialized(call.pre)
        /\ Held = call.pre

\* C6 as amended: on the keyed store, store() with no argument leaves the
\* held map unchanged and writes it to both files (raising AttributeError
\* when no map is held); on the single-value store it replaces the held time
\* by the current time and writes that to both files.
C6_BareSet ==
    BareSet =>
        IF cls = "LastTimeMemoryStore"
        THEN /\ memory = call.pre
             /\ IF call.pre = None THEN outcome = Raise("AttributeError")
                ELSE /\ outcome.kind = "ok"
                     /\ file = Doc(dumps(call.pre))
                     /\ bkp = Doc(dumps(call.pre))
        ELSE /\ outcome.kind = "ok"
             /\ last_time = lastnow
             /\ file = Doc(JStr(isoformat(lastnow)))
             /\ bkp = Doc(JStr(isoformat(lastnow)))

\* a keyed store has persisted its held two-key map by a bare store()
C6_WitnessMemory ==
    /\ cls = "LastTimeMemoryStore" /\ BareSet
    /\ call.pre # None /\ DOMAIN call.pre.d = Keys
    /\ file = Doc(dumps(memory))

\* a single-value store has replaced its held time by a bare store()
C6_Witness ==
    /\ cls = "LastTimeStore" /\ BareSet
    /\ call.pre # last_time
    /\ file = Doc(JStr(isoformat(last_time)))

\* C18: after load() returns on a LastTimeMemoryStore the held map equals
\* the returned map; after the default fallback of the constructor the held
\* map is empty, so a following store() with no argument succeeds and writes
\* the empty map to both files.
C18_LoadHoldsReturned ==
    /\ (cls = "LastTimeMemoryStore" /\ Loaded /\ outcome.kind = "ok")
            => memory = outcome.val
    /\ (cls = "LastTimeMemoryStore" /\ BareSet /\ prevcall.op = "new")
            => /\ outcome.kind = "ok"
               /\ file = Doc(dumps(memory))
               /\ bkp = Doc(dumps(memory))

\* a fresh instance was built after a set() that crashed while both files
\* held the same valid value
RecoveredFromCrash == call.op = "new" /\ prevcall.op = "crash"

\* C17: when both files hold the same valid value and the only writer
\* crashes anywhere in one store(), leaving a file cut short, load() on a
\* fresh instance does not raise and returns the old value or the new one.
C17_CrashRecovery ==
    RecoveredFromCrash =>
        outcome \in {Ok(prevcall.pre), Ok(prevcall.arg)}

\* the primary was left cut short inside its text and the fresh instance
\* has loaded the old value, which differs from the new one, from the backup
C17_Witness ==
    /\ RecoveredFromCrash
    /\ file.f = "text" /\ Len(file.text) > 0
    /\ loads(file.text).kind = "raise"
    /\ outcome = Ok(prevcall.pre)
    /\ outcome # Ok(prevcall.arg)

\* every writer that entered set() has left it
WritersDone ==
    /\ \A p \in Writers : wpc[p] \in {"none", "done"}
    /\ \E p \in Writers : wpc[p] = "done"

\* C20: two processes that run store(a) and store(b) on the same file names
\* can interleave their four file writes so that both complete and the two
\* files differ (C20_Witness is that state).  What no interleaving can do:
\* a store() that ran alone leaves both files with its text, and after two
\* each file holds the text of one of them.
C20_FilesHoldWrites ==
    WritersDone =>
        /\ \A p \in Writers :
                (wpc[p] = "done" /\ \A q \in Writers \ {p} : wpc[q] = "none")
                    => file = wtext[p] /\ bkp = wtext[p]
        /\ file \in {wtext[p] : p \in {q \in Writers : wpc[q] = "done"}}
        /\ bkp \in {wtext[p] : p \in {q \in Writers : wpc[q] = "done"}}

\* both store() calls have completed and the primary and the backup differ
C20_Witness ==
    /\ \A p \in Writers : wpc[p] = "done"
    /\ file # bkp

----------------------------------------------------------------------------
(* Claims about the engine *)

\* a get/post call has ended
CallEnded == epc = "idle" /\ method # "none"

C8_BadProbeRejected == (probe \in BadProbes) => checked = Ok(TRUE)

\* C9: whenever get_new_ip() has returned (so after construction and after
\* every get/post), the last check_ip() returned false, cip is the address
\* its probe resolved, cip carries no DOCTYPE sentinel and eip is None.
C9_RotationResult ==
    (epc \in {"idle", "request"}) =>
        /\ checked = Ok(FALSE)
        /\ cip.py = "str"
        /\ probe = Body(IpBody(cip.text))
        /\ ~Contains(cip.text, DOCTYPE)
        /\ eip = None

\* C10 as claimed: once the engine is built, cip changes only in a
\* check_ip() that returns false.
C10_OnlyGoodCheckWrites ==
    [][(epc # "start" /\ cip' # cip) =>
            (epc = "probe" /\ checked' = Ok(FALSE))]_vars

\* C10 as amended: once the engine is built, cip changes only in check_ip():
\* to the resolved address when it returns false, to the marker
\* Exception('IP_NOT_KNOWN') when the probe raised and it returns true; a
\* failed request, a get/post without rotation and a check_ip() that raises
\* leave cip unchanged.
C10_OnlyCheckWrites ==
    [][(epc # "start" /\ cip' # cip) =>
            /\ epc = "probe"
            /\ \/ /\ checked' = Ok(FALSE)
                  /\ cip'.py = "str"
                  /\ probe' = Body(IpBody(cip'.text))
               \/ /\ checked' = Ok(TRUE)
                  /\ cip' = Exception("IP_NOT_KNOWN")]_vars

\* a check_ip() whose probe raised has returned true and left the marker
\* in cip, during the rotation a failed request started
C10_Witness ==
    /\ caller = "retry"
    /\ epc = "signal"
    /\ checked = Ok(TRUE)
    /\ cip = Exception("IP_NOT_KNOWN")
    /\ probe = NetError

\* C14: the engine authenticates before any new-circuit signal; a failed
\* authentication leaves the constructor as an exception, is not retried,
\* and no signal, session or probe follows it.
C14_AuthenticationFirst ==
    /\ (session > 0 \/ probe # None \/ checked # NotCalled \/ epc = "probe")
            => authenticated
    /\ (response = Raise("AuthenticationFailure")) =>
            /\ epc = "dead"
            /\ ~authenticated
            /\ session = 0
            /\ probe = None
            /\ checked = NotCalled
            /\ cip = None
    /\ (epc # "start" /\ ~authenticated)
            => response = Raise("AuthenticationFailure")

\* the constructor has ended with the authentication failure
C14_Witness ==
    /\ epc = "dead"
    /\ response = Raise("AuthenticationFailure")
    /\ session = 0

\* C15: a get/post call has no exit but the return of a response: it never
\* gives up and never ends without a response.
C15_EndsOnlyWithResponse == CallEnded => response.kind = "ok"

\* C16: every attempt of a get/post call is made through the engine's
\* current session, also after a rotation has replaced the session.
C16_AttemptUsesCurrentSession == (epc = "request") => func_session = session

----------------------------------------------------------------------------
(* Claims about the rate limiter *)

\* the last rate check was a rate_check()
SyncChecked == lastcheck.variant = "sync"
\* the seconds since res when the last rate check was called
Elapsed == lastcheck.now - lastcheck.res

\* C11: a rate_check() called with the flag unset, or with at least
\* target_limit seconds elapsed since res, does not sleep.
C11_BlocksOnlyWhenDue ==
    (SyncChecked /\ (~lastcheck.akt \/ Elapsed >= target_limit))
        => lastcheck.out.slept = 0

\* C12: a rate_check() called with the flag unset, or with at least
\* target_limit seconds elapsed since res, returns at once and leaves res and
\* the flag as they were.
C12_NoopWhenNotDue ==
    (SyncChecked /\ (~lastcheck.akt \/ Elapsed >= target_limit))
        => /\ lastcheck.out.slept = 0
           /\ lastcheck.out.res = lastcheck.res
           /\ lastcheck.out.akt = lastcheck.akt

\* C13: a rate_check() called with the flag set and less than target_limit
\* seconds elapsed since res sleeps for the remaining seconds, then sets res
\* to the time of its return and clears the flag.
C13_SleepsRemaining ==
    (SyncChecked /\ lastcheck.akt /\ Elapsed < target_limit)
        => /\ lastcheck.out.slept = target_limit - Elapsed
           /\ lastcheck.out.res = lastcheck.now + lastcheck.out.slept
           /\ lastcheck.out.res - lastcheck.res >= target_limit
           /\ lastcheck.out.akt = FALSE

\* C19: async_rate_check() suspends its caller for as long as rate_check()
\* would from the same state, and ends with the same res and flag.
C19_AsyncAsSync ==
    (lastcheck.variant = "async")
        => lastcheck.out = rate_check_body(lastcheck.res, epoch, target_limit,
                                           lastcheck.akt, lastcheck.now)

============================================================================
